---- MODULE Spec2Model ----
(***************************************************************************)
(* TerryOptImg: the single-file optimizer (ImageOptimizer.process_file)    *)
(* and the batch coordinators of the three front ends (the two Tk          *)
(* OptimizerApp classes, which share their coordinator code, and the Qt    *)
(* WorkerThread / ModernImageOptimizer pair).                              *)
(***************************************************************************)
EXTENDS Integers, Sequences, FiniteSets, TLC

\* ------------------------------------------------------------------------
\* Bounds of the model
\* ------------------------------------------------------------------------
MaxFiles == 2        \* longest selection list explored
MaxWorkers == 2      \* largest worker-count setting explored

\* ------------------------------------------------------------------------
\* ImageOptimizer: the single-file pipeline
\* ------------------------------------------------------------------------

\* Which external tools shutil.which found when the optimizer was built.
ToolSets ==
  { [has_jpegoptim |-> FALSE, has_pngquant |-> FALSE,
     has_svgo |-> FALSE, has_scour |-> FALSE],
    [has_jpegoptim |-> TRUE, has_pngquant |-> TRUE,
     has_svgo |-> TRUE, has_scour |-> TRUE],
    [has_jpegoptim |-> TRUE, has_pngquant |-> FALSE,
     has_svgo |-> FALSE, has_scour |-> TRUE],
    [has_jpegoptim |-> FALSE, has_pngquant |-> TRUE,
     has_svgo |-> TRUE, has_scour |-> FALSE] }

\* Optimizer settings (ImageOptimizer.__init__).  max_size 0 and
\* target_format "" stand for None.
OptCfgs ==
  { c @@ t : c \in [ output_dir    : BOOLEAN,
                     overwrite     : BOOLEAN,
                     max_size      : {0, 3, 5},
                     target_format : {"", "jpg", "png"} ],
             t \in ToolSets }

\* One input file together with what the file system, the imaging library
\* and the external tools do while it is processed.
\*   dir_exists : the output directory is there before the call
\*   mkdir_ok   : creating the output directory succeeds
\*   out_exists : a file is already at the resolved output path (which
\*                takes the directory to be there)
\*   write_ok   : Image.save / shutil.copy2 succeeds
\*   partial    : a write that fails does so after the destination was
\*                opened for writing (both open it with mode "wb", which
\*                truncates), not before
\*   tool       : what subprocess.run of the external tool does
FileEnvs ==
  { e \in [ exists     : BOOLEAN,
            ext        : {"jpg", "png", "svg"},
            size       : {2},
            decodable  : BOOLEAN,
            dims       : {<<5, 3>>},
            dir_exists : BOOLEAN,
            mkdir_ok   : BOOLEAN,
            out_exists : BOOLEAN,
            write_ok   : BOOLEAN,
            partial    : BOOLEAN,
            enc_size   : {1, 3},
            tool       : {"ok", "nonzero", "launchfail"},
            tool_size  : {1} ] :
      /\ e.out_exists => e.dir_exists
      /\ e.partial => ~e.write_ok }

Max2(a, b) == IF a >= b THEN a ELSE b

\* The directory of the resolved output path: the configured output
\* directory, else the "optimized" folder next to the input, else (with
\* overwrite) the directory of the input itself.
out_dir(o) ==
  IF o.output_dir THEN "output_dir"
  ELSE IF ~o.overwrite THEN "optimized"
  ELSE "input"

\* save_ext = self.target_format if self.target_format else current_ext
save_ext(o, f) == IF o.target_format # "" THEN o.target_format ELSE f.ext

\* A path as far as the pipeline tells paths apart: directory and suffix
\* (the base name is that of the input throughout).
file_path(f) == [dir |-> "input", ext |-> f.ext]

\* out_path of process_file, with_suffix applied when a target format is set.
out_path(o, f) == [dir |-> out_dir(o), ext |-> save_ext(o, f)]

\* out_path of process_svg: same directories, the suffix is kept.
svg_out_path(o, f) == [dir |-> out_dir(o), ext |-> f.ext]

\* Whether process_svg calls mkdir: only for the "optimized" folder.
svg_makes_dir(o) == out_dir(o) = "optimized"

\* Whether process_file calls mkdir on the directory of the output path.
makes_dir(o) == out_dir(o) # "input"

\* out_path.exists() before the save.
out_path_exists(o, f, op) == IF op = file_path(f) THEN TRUE ELSE f.out_exists

\* A resize branch taken also when the larger side equals the bound.
resize_occurs_at_bound(o, f) ==
  o.max_size # 0 /\ Max2(f.dims[1], f.dims[2]) >= o.max_size

\* Whether the resize branch is taken.
resize_occurs(o, f) ==
  o.max_size # 0 /\ Max2(f.dims[1], f.dims[2]) > o.max_size

\* new_size = (int(w * ratio), int(h * ratio)) with
\* ratio = max_size / max(w, h): int() drops the fraction.
resized_dims(o, f) ==
  << (f.dims[1] * o.max_size) \div Max2(f.dims[1], f.dims[2]),
     (f.dims[2] * o.max_size) \div Max2(f.dims[1], f.dims[2]) >>

\* The size of the image that is saved.
img_size(o, f) == IF resize_occurs(o, f) THEN resized_dims(o, f) ELSE f.dims

\* resample = LANCZOS if ratio < 1 else BICUBIC, inside the resize branch.
resample(o, f) ==
  IF ~resize_occurs(o, f) THEN "none"
  ELSE IF o.max_size < Max2(f.dims[1], f.dims[2]) THEN "LANCZOS"
  ELSE "BICUBIC"

\* A save decision that always re-encodes.
needs_pil_save_always(o, f) == TRUE

\* needs_pil_save as the code computes it: the first disjunct is
\* "self.max_size is not None".
needs_pil_save(o, f) ==
     o.max_size # 0
  \/ (o.target_format # "" /\ o.target_format # f.ext)
  \/ (~out_path_exists(o, f, out_path(o, f)) /\ out_path(o, f) # file_path(f))

\* A size taken before the external tool ran.
stat_size_before_tool(written, after_tool) == written

\* result["new_size"] = out_path.stat().st_size, which comes after the call
\* of optimize_external.
stat_size(written, after_tool) == after_tool

\* Outcome of the statements of a try body: exc = "" when the body ran to
\* its return, otherwise the exception that left it.  op is the resolved
\* output path, wrote how the output was written ("encode", "copy", "none"),
\* mkdir whether the output directory was created by the call, and
\* out_exists / out_size the file at the output path when the call ends
\* out_state tells what the file at the output path holds then: "pre" what
\* it held before the call (or nothing, if nothing was there), "partial"
\* the remains of a write that failed, "new" the complete output of the
\* write, "tool" the output as rewritten by the external tool.
Raise(f, orig, e, detail, op, mkdir, st) ==
  [ exc |-> e, detail |-> detail, success |-> FALSE,
    original_size |-> orig, new_size |-> 0, message |-> <<>>,
    wrote |-> "none", resized |-> FALSE,
    out_path |-> op, mkdir |-> mkdir,
    out_exists |-> IF st # "pre" THEN TRUE
                   ELSE IF op = file_path(f) THEN f.exists
                   ELSE f.out_exists,
    out_size |-> IF op = file_path(f) /\ st = "pre" THEN orig ELSE 0,
    out_state |-> st, img_size |-> <<0, 0>>, resample |-> "none" ]

Return(orig, new, msg, wrote, resized, op, mkdir, disk_size, st, dims, rs) ==
  [ exc |-> "", detail |-> "", success |-> TRUE,
    original_size |-> orig, new_size |-> new, message |-> msg,
    wrote |-> wrote, resized |-> resized,
    out_path |-> op, mkdir |-> mkdir,
    out_exists |-> TRUE, out_size |-> disk_size,
    out_state |-> st, img_size |-> dims, resample |-> rs ]

NoPath == [dir |-> "", ext |-> ""]

\* What the call of subprocess.run does: it returns whatever the exit
\* status ("ok", "nonzero"), and raises OSError when the program cannot be
\* started ("launchfail"); no handler stands between it and the except
\* clause of process_file.
tool_outcome(f) == f.tool

\* process_svg: resolve the output path, copy, run svgo or scour.
process_svg(o, f) ==
  LET op        == svg_out_path(o, f)
      in_place  == op = file_path(f)
      mkdir     == svg_makes_dir(o) /\ ~f.dir_exists
      mkdir_err == mkdir /\ ~f.mkdir_ok
      dir_there == f.dir_exists \/ (mkdir /\ f.mkdir_ok)
      \* copy2 into a directory that is not there fails
      copy_err  == ~in_place /\ (~f.write_ok \/ ~dir_there)
      runs_tool == o.has_svgo \/ o.has_scour
      after     == IF runs_tool /\ tool_outcome(f) = "ok"
                   THEN f.tool_size ELSE f.size
  IN  IF mkdir_err
        THEN Raise(f, f.size, "OSError", "mkdir", op, FALSE, "pre")
      ELSE IF copy_err
        THEN Raise(f, f.size, "OSError", "copy", op, mkdir,
                   IF dir_there /\ f.partial THEN "partial" ELSE "pre")
      ELSE IF runs_tool /\ tool_outcome(f) = "launchfail"
        THEN Raise(f, f.size, "OSError", "subprocess", op, mkdir,
                   IF in_place THEN "pre" ELSE "new")
      ELSE Return(f.size, stat_size(f.size, after), <<"SVG Optimized">>,
                  IF in_place THEN "none" ELSE "copy", FALSE, op, mkdir,
                  after,
                  IF runs_tool /\ tool_outcome(f) = "ok" THEN "tool"
                  ELSE IF in_place THEN "pre" ELSE "new",
                  <<0, 0>>, "none")

\* optimize_external: which tool, if any, is run on the output file.
optimize_external(o, out_ext) ==
  IF out_ext \in {"jpg", "jpeg"} /\ o.has_jpegoptim THEN "jpegoptim"
  ELSE IF out_ext = "png" /\ o.has_pngquant THEN "pngquant"
  ELSE "none"

\* The statements inside the try of process_file.
process_file_body(o, f) ==
  IF ~f.exists
    THEN Raise(f, 0, "FileNotFoundError", "File not found", NoPath, FALSE,
               "pre")
  ELSE IF f.ext = "svg" THEN process_svg(o, f)
  ELSE IF ~f.decodable
    THEN Raise(f, f.size, "ValueError", "Cannot load image", NoPath, FALSE,
               "pre")
  ELSE
    LET op        == out_path(o, f)
        mkdir     == makes_dir(o) /\ ~f.dir_exists
        mkdir_err == mkdir /\ ~f.mkdir_ok
        resized   == resize_occurs(o, f)
        wrote     == IF needs_pil_save(o, f) THEN "encode"
                     ELSE IF op # file_path(f) THEN "copy" ELSE "none"
        written   == IF wrote = "encode" THEN f.enc_size ELSE f.size
        tool      == optimize_external(o, op.ext)
        after     == IF tool # "none" /\ tool_outcome(f) = "ok"
                     THEN f.tool_size ELSE written
    IN  IF mkdir_err
          THEN Raise(f, f.size, "OSError", "mkdir", op, FALSE, "pre")
        ELSE IF wrote # "none" /\ ~f.write_ok
          THEN Raise(f, f.size, "OSError", "write", op, mkdir,
                     IF f.partial THEN "partial" ELSE "pre")
        ELSE IF tool # "none" /\ tool_outcome(f) = "launchfail"
          THEN Raise(f, f.size, "OSError", "subprocess", op, mkdir,
                     IF wrote # "none" THEN "new" ELSE "pre")
        ELSE Return(f.size, stat_size(written, after), <<"Processed">>,
                    wrote, resized, op, mkdir, after,
                    IF tool # "none" /\ tool_outcome(f) = "ok" THEN "tool"
                    ELSE IF wrote # "none" THEN "new" ELSE "pre",
                    img_size(o, f), resample(o, f))

\* process_file with its exception handler left out (what the pipeline would
\* do if the except clause did not cover the body).
process_file_uncaught(o, f) ==
  LET r == process_file_body(o, f)
  IN  [ raised |-> r.exc # "" ] @@ r

\* process_file: the body under `except Exception`, which turns whatever
\* left the body into a failed result with an "Error <name>: <cause>" text.
process_file(o, f) ==
  LET r == process_file_body(o, f)
  IN  [ raised |-> FALSE,
        message |-> IF r.exc # "" THEN <<"Error ", r.detail>>
                    ELSE r.message ] @@ r

\* ------------------------------------------------------------------------
\* The front ends and their batch coordinators
\* ------------------------------------------------------------------------
VARIABLES
  gui,                \* which front end runs: "tk" (both Tk apps) or "qt"
  files_to_process,   \* the selection list, one file kind per entry
  processing,         \* OptimizerApp.processing (Tk)
  start_btn,          \* TRUE when the start button is enabled
  stop_btn,           \* TRUE when the stop button is enabled
  session_saved_size, \* running total of bytes saved shown by the front end
  cancelled,          \* cancel_event (Tk) / WorkerThread.cancelled (Qt)
  queue,              \* messages put / signals emitted, not yet handled
  pc,                 \* position of the coordinator thread
  optimizer,          \* settings of the ImageOptimizer of the run
  max_workers,        \* max_workers of the ThreadPoolExecutor
  total,              \* local `total` of the coordinator
  completed,          \* local `completed` of the coordinator
  total_saved,        \* WorkerThread.total_saved (Qt)
  it,                 \* position of the submit loop's list iterator
  futures,            \* the futures list: one task per submitted file
  fut_i,              \* position of the result loop in futures
  cancel_seen,        \* history: the submit loop broke on the flag
  flag_at_begin,      \* history: the flag was set when run() began
  delivered,          \* history: what the front end has handled in this run
  opt_call,           \* one call of process_file: settings, file, result
  settings,           \* the settings panel and the stored configuration
  sharing             \* workers creating the shared "optimized" directory

vars == << gui, files_to_process, processing, start_btn, stop_btn,
           session_saved_size, cancelled, queue, pc, optimizer, max_workers,
           total, completed, total_saved, it, futures, fut_i, cancel_seen,
           flag_at_begin, delivered, opt_call, settings, sharing >>

uivars   == << processing, start_btn, stop_btn, session_saved_size >>
loopvars == << total, completed, total_saved, it, fut_i >>

\* The kinds of file a selection is made of: one that shrinks, one whose
\* output is larger than its input, one that cannot be decoded.
FileKinds == {"good", "grow", "bad"}

FileOf(kind) ==
  [ exists |-> TRUE, ext |-> "jpg", size |-> 2,
    decodable |-> kind # "bad", dims |-> <<4, 3>>,
    dir_exists |-> TRUE, mkdir_ok |-> TRUE, out_exists |-> FALSE,
    write_ok |-> TRUE, partial |-> FALSE,
    enc_size |-> IF kind = "grow" THEN 3 ELSE 1,
    tool |-> "ok", tool_size |-> 1 ]

NoTools ==
  [ has_jpegoptim |-> FALSE, has_pngquant |-> FALSE,
    has_svgo |-> FALSE, has_scour |-> FALSE ]

\* What the max-size entry may hold when start is pressed.
MaxSizeTexts == {"", "abc"}

\* A parse that takes any text and falls back to "no bound".
ParseMaxSizeTkLenient(text) ==
  CASE text = "" -> [ok |-> TRUE,  value |-> 0]
    [] OTHER     -> [ok |-> TRUE,  value |-> 0]

\* int(text) if text else None (Tk): value 0 stands for None, and int()
\* raises ValueError on anything that is not a plain integer.
ParseMaxSizeTk(text) ==
  CASE text = "" -> [ok |-> TRUE,  value |-> 0]
    [] OTHER     -> [ok |-> FALSE, value |-> 0]

\* Qt: an empty (stripped) text leaves max_size None; int() and the split
\* on "x" raise on a text that is neither a number nor WxH, and the except
\* around the whole of start_processing catches it.
ParseMaxSizeQt(text) ==
  CASE text = "" -> [ok |-> TRUE,  value |-> 0]
    [] OTHER     -> [ok |-> FALSE, value |-> 0]

MakeOptimizer(max_size) ==
  [ output_dir |-> FALSE, overwrite |-> FALSE, max_size |-> max_size,
    target_format |-> "" ] @@ NoTools

NoResult ==
  [ raised |-> FALSE ] @@
    Raise(FileOf("good"), 0, "", "", NoPath, FALSE, "pre")

\* opt_call while no single call is being followed.
NoCall ==
  [ cfg |-> MakeOptimizer(0), file |-> FileOf("good"), returned |-> FALSE,
    result |-> NoResult ]

\* Messages from the coordinator to the front end.  idx is the position of
\* the file in the selection list (0 when the message is not about a file).
Msg(type, idx, ok, a, b) == [type |-> type, idx |-> idx, ok |-> ok, a |-> a, b |-> b]

\* ---------------- the settings panel and the stored configuration -------

\* The three front ends: the two Tk applications and the Qt one.
Apps == {"tk", "tk_simple", "qt"}

Modes == {"Lossy", "Lossless"}

\* Values of the quality spin box (range 1..100) that are told apart.
Qualities == {70, 85, 100}

\* The languages of LanguageManager's packs.
Languages == {"English", "Chinese"}

\* The Chinese text for "Keep Original" (the four characters of the Chinese
\* pack's "keep_original" entry and of the Qt combo boxes), written in
\* ASCII here.
KEEP_ORIGINAL_ZH == "Keep Original (zh)"

\* The entries of the format selectors that are told apart.
Formats == {"Keep Original", KEEP_ORIGINAL_ZH, "jpg"}

\* ConfigManager.DEFAULT_CONFIG, as far as mode, quality, format and
\* language go.
DEFAULT_CONFIG ==
  [ mode |-> "Lossy", quality |-> 85, format |-> "Keep Original",
    language |-> "English" ]

\* LanguageManager.t("keep_original") in a language.
t_keep_original(language) ==
  IF language = "Chinese" THEN KEEP_ORIGINAL_ZH ELSE "Keep Original"

\* The first entry of the format selector of a front end: a literal in
\* the Tk application and in the Qt one, translated in the simple Tk one.
keep_entry(s) ==
  IF s.app = "tk" THEN "Keep Original"
  ELSE IF s.app = "qt" THEN KEEP_ORIGINAL_ZH
  ELSE t_keep_original(s.language)

\* The widgets as the constructors build them, before load_config.  The
\* language is set from the stored configuration in the constructor and
\* stays for the life of the window.  loaded, started and the passed_*
\* fields are history: load_config was the last thing to touch the panel;
\* what the last start read and handed to ImageOptimizer.
FreshPanel(app, config) ==
  [ app |-> app, mode |-> "Lossy", quality |-> 85, spin_enabled |-> TRUE,
    format |-> IF app = "qt" THEN KEEP_ORIGINAL_ZH ELSE "Keep Original",
    language |-> config.language,
    config |-> config, loaded |-> FALSE, started |-> FALSE,
    passed_mode |-> "Lossy", passed_quality |-> 85,
    passed_format |-> "Keep Original", passed_target_format |-> "None" ]

\* toggle_mode: Lossless sets the quality to 100 and disables the spin box,
\* Lossy sets it to 85 and enables it.
toggle_mode(s) ==
  [s EXCEPT !.quality = IF s.mode = "Lossless" THEN 100 ELSE 85,
            !.spin_enabled = s.mode # "Lossless"]

\* load_config of the Tk applications: the stored values are put into the
\* variables, and toggle_mode is called last.
load_config_tk(s) ==
  toggle_mode([s EXCEPT !.mode = s.config.mode,
                        !.quality = s.config.quality,
                        !.format = s.config.format,
                        !.loaded = TRUE])

\* load_config of the Qt application: setCurrentText fires
\* currentTextChanged, and with it toggle_mode, only when the text changes;
\* the stored quality is put into the spin box after that.
load_config_qt(s) ==
  LET m == IF s.config.mode = "Lossless" THEN "Lossless" ELSE "Lossy"
      t == IF m # s.mode THEN toggle_mode([s EXCEPT !.mode = m]) ELSE s
  IN  [t EXCEPT !.quality = s.config.quality,
                !.format = IF s.config.format = "jpg" THEN "jpg"
                           ELSE KEEP_ORIGINAL_ZH,
                !.loaded = TRUE]

load_config(s) ==
  IF s.app = "qt" THEN load_config_qt(s) ELSE load_config_tk(s)

\* The state of a front end once its constructor has returned.
Constructed(app, config) == load_config(FreshPanel(app, config))

\* The user picks a mode: a radio button (Tk, whose command runs on every
\* click) or the combo box (Qt, whose signal comes only on a change).
select_mode(m) ==
  /\ settings.app = "qt" => m # settings.mode
  /\ settings' = toggle_mode([settings EXCEPT !.mode = m,
                                              !.loaded = FALSE])
  /\ UNCHANGED << gui, files_to_process, uivars, cancelled, queue, pc,
                  optimizer, max_workers, loopvars, futures, cancel_seen,
                  flag_at_begin, delivered, opt_call, sharing >>

\* The user edits the quality spin box, which takes input while enabled.
edit_quality(q) ==
  /\ settings.spin_enabled
  /\ settings' = [settings EXCEPT !.quality = q, !.loaded = FALSE]
  /\ UNCHANGED << gui, files_to_process, uivars, cancelled, queue, pc,
                  optimizer, max_workers, loopvars, futures, cancel_seen,
                  flag_at_begin, delivered, opt_call, sharing >>

\* The user picks an entry of the format selector (read-only combo box).
select_format(fmt) ==
  /\ fmt \in {keep_entry(settings), "jpg"}
  /\ settings' = [settings EXCEPT !.format = fmt, !.loaded = FALSE]
  /\ UNCHANGED << gui, files_to_process, uivars, cancelled, queue, pc,
                  optimizer, max_workers, loopvars, futures, cancel_seen,
                  flag_at_begin, delivered, opt_call, sharing >>

\* What the settings dialog stores for an entry of its format selector:
\* the Tk dialog lists "Keep Original" and stores the entry as it is, the
\* Qt dialog lists the Chinese text and stores "Keep Original" for it.
dialog_format(keep) == IF keep THEN "Keep Original" ELSE "jpg"

\* Save in the settings dialog: the language, the default quality and the
\* default format go into the stored configuration (the mode is not among
\* the dialog's fields), and the callback / the settings_changed signal
\* runs load_config.
settings_dialog_save(q, lang, keep) ==
  /\ settings' = load_config([settings EXCEPT
                                !.config.quality = q,
                                !.config.language = lang,
                                !.config.format = dialog_format(keep)])
  /\ UNCHANGED << gui, files_to_process, uivars, cancelled, queue, pc,
                  optimizer, max_workers, loopvars, futures, cancel_seen,
                  flag_at_begin, delivered, opt_call, sharing >>

\* start_processing of the Tk application and of the Qt one compare the
\* selected entry with the literal their selector lists.
target_format_literal(s) ==
  IF s.format = (IF s.app = "qt" THEN KEEP_ORIGINAL_ZH ELSE "Keep Original")
  THEN "None" ELSE s.format

\* target_format = None if fmt == <keep-original text> else fmt: the Tk
\* application compares with "Keep Original", the Qt one with the Chinese
\* text, the simple Tk one with self._t("keep_original").
target_format(s) ==
  IF s.app = "tk_simple"
    THEN IF s.format = t_keep_original(s.language) THEN "None" ELSE s.format
    ELSE target_format_literal(s)

\* Start: the quality handed to ImageOptimizer is the value of the spin
\* box, the target format is worked out from the format selector.
start_with_settings ==
  /\ settings' = [settings EXCEPT !.started = TRUE,
                                  !.passed_mode = settings.mode,
                                  !.passed_quality = settings.quality,
                                  !.passed_format = settings.format,
                                  !.passed_target_format =
                                     target_format(settings)]
  /\ UNCHANGED << gui, files_to_process, uivars, cancelled, queue, pc,
                  optimizer, max_workers, loopvars, futures, cancel_seen,
                  flag_at_begin, delivered, opt_call, sharing >>

\* What is stored when the window is closed: on_close of the Tk
\* applications calls save_config; nothing calls save_config in the Qt one.
StoredOnClose(s) ==
  IF s.app = "qt" THEN s.config
  ELSE [s.config EXCEPT !.mode = s.mode, !.quality = s.quality,
                        !.format = s.format]

\* The window is closed and one of the front ends is opened again on the
\* same configuration file.
close_and_reopen(app) ==
  /\ settings' = Constructed(app, StoredOnClose(settings))
  /\ UNCHANGED << gui, files_to_process, uivars, cancelled, queue, pc,
                  optimizer, max_workers, loopvars, futures, cancel_seen,
                  flag_at_begin, delivered, opt_call, sharing >>

\* Workers of a pool whose files lie in one directory, run with
\* overwrite off and no output directory: each resolves its output path to
\* <parent>/optimized/<name> and calls mkdir(exist_ok=True) on the parent.
DirWorkers == 3

\* No call is under way.
NoSharing ==
  [ dir |-> "absent", created_by |-> 0, eexist |-> {},
    at |-> [w \in 1..DirWorkers |-> "done"] ]

Idle ==
  /\ files_to_process = <<>>
  /\ processing = FALSE
  /\ start_btn = TRUE
  /\ stop_btn = FALSE
  /\ session_saved_size = 0
  /\ cancelled = FALSE
  /\ queue = <<>>
  /\ pc = "none"
  /\ optimizer = MakeOptimizer(0)
  /\ max_workers = 1
  /\ total = 0
  /\ completed = 0
  /\ total_saved = 0
  /\ it = 1
  /\ futures = <<>>
  /\ fut_i = 1
  /\ cancel_seen = FALSE
  /\ flag_at_begin = FALSE
  /\ delivered = <<>>

Init ==
  /\ gui \in {"tk", "qt"}
  /\ Idle
  /\ opt_call = NoCall
  /\ settings = Constructed(gui, DEFAULT_CONFIG)
  /\ sharing = NoSharing

Running == Cardinality({k \in 1..Len(futures) : futures[k].st = "running"})

AllDone == \A k \in 1..Len(futures) : futures[k].st = "done"

\* ---------------- handlers of the front end (main thread) ---------------

\* select_files: the dialog returns a file, which is appended to the list.
\* Nothing disables the Add buttons while a run is in progress.
select_files(kind) ==
  /\ Len(files_to_process) < MaxFiles
  /\ files_to_process' = Append(files_to_process, kind)
  /\ UNCHANGED << gui, uivars, cancelled, queue, pc, optimizer, max_workers,
                  loopvars, futures, cancel_seen, flag_at_begin, delivered,
                  opt_call, settings, sharing >>

\* OptimizerApp.start_processing (Tk), on a click of the enabled button.
\* The parse of the max-size text comes after the flags are set.
start_processing_tk(text, w) ==
  /\ gui = "tk"
  /\ start_btn
  /\ files_to_process # <<>>
  /\ ~processing
  /\ session_saved_size' = 0
  /\ cancelled' = FALSE
  /\ delivered' = <<>>
  /\ flag_at_begin' = FALSE
  /\ IF ParseMaxSizeTk(text).ok
       THEN /\ processing' = TRUE
            /\ start_btn' = FALSE
            /\ stop_btn' = TRUE
            /\ optimizer' = MakeOptimizer(ParseMaxSizeTk(text).value)
            /\ max_workers' = w
            /\ pc' = "start"
            /\ futures' = <<>>
            /\ cancel_seen' = FALSE
       ELSE /\ processing' = FALSE
            /\ start_btn' = TRUE
            /\ stop_btn' = FALSE
            /\ UNCHANGED << optimizer, max_workers, pc, futures,
                            cancel_seen >>
  /\ UNCHANGED << gui, files_to_process, queue, loopvars, opt_call,
                  settings, sharing >>

\* A start that only the running thread holds back.
may_start_qt_thread_only == pc = "none"

\* What lets a start request through in the Qt front end: the start button
\* (the one trigger of start_processing) is enabled, and the previous
\* worker thread is not running.
may_start_qt == start_btn /\ pc = "none"

\* ModernImageOptimizer.start_processing (Qt).  A click while the previous
\* thread has not left run() yet changes nothing; a text that does not
\* parse raises inside the try, whose handler shows a message box only.
start_processing_qt(text, w) ==
  /\ gui = "qt"
  /\ may_start_qt
  /\ files_to_process # <<>>
  /\ IF ParseMaxSizeQt(text).ok
       THEN /\ optimizer' = MakeOptimizer(ParseMaxSizeQt(text).value)
            /\ session_saved_size' = 0
            /\ max_workers' = w
            /\ cancelled' = FALSE
            /\ total_saved' = 0
            /\ start_btn' = FALSE
            /\ stop_btn' = TRUE
            /\ pc' = "start"
            /\ futures' = <<>>
            /\ cancel_seen' = FALSE
            /\ flag_at_begin' = FALSE
            /\ delivered' = <<>>
            /\ UNCHANGED << gui, files_to_process, processing, queue, total,
                            completed, it, fut_i, opt_call, settings,
                            sharing >>
       ELSE UNCHANGED vars

\* stop_processing, on a click of the enabled stop button.
stop_processing ==
  /\ stop_btn
  /\ IF gui = "tk"
       THEN /\ processing
            /\ cancelled' = TRUE
            /\ stop_btn' = FALSE
       ELSE /\ pc # "none"
            /\ cancelled' = TRUE
            /\ stop_btn' = stop_btn
  /\ UNCHANGED << gui, files_to_process, processing, start_btn,
                  session_saved_size, queue, pc, optimizer, max_workers,
                  loopvars, futures, cancel_seen, flag_at_begin, delivered,
                  opt_call, settings, sharing >>

\* ---------------- the coordinator thread --------------------------------

\* A coordinator that clears the flag when it begins.
RunBeginClearsFlag ==
  /\ pc = "start"
  /\ total' = Len(files_to_process)
  /\ completed' = 0
  /\ total_saved' = 0
  /\ it' = 1
  /\ fut_i' = 1
  /\ pc' = "submit"
  /\ flag_at_begin' = cancelled
  /\ cancelled' = FALSE
  /\ UNCHANGED << gui, files_to_process, uivars, queue, optimizer,
                  max_workers, futures, cancel_seen, delivered, opt_call,
                  settings, sharing >>

\* total = len(files); completed = 0; the executor is created.
RunBegin ==
  /\ pc = "start"
  /\ total' = Len(files_to_process)
  /\ completed' = 0
  /\ total_saved' = 0
  /\ it' = 1
  /\ fut_i' = 1
  /\ pc' = "submit"
  /\ flag_at_begin' = cancelled
  /\ UNCHANGED << gui, files_to_process, uivars, cancelled, queue, optimizer,
                  max_workers, futures, cancel_seen, delivered, opt_call,
                  settings, sharing >>

\* Submit loop, flag clear: submit the next file of the list.
SubmitFile ==
  /\ pc = "submit"
  /\ it <= Len(files_to_process)
  /\ ~cancelled
  /\ futures' = Append(futures, [idx |-> it, kind |-> files_to_process[it],
                                 st |-> "queued", res |-> NoResult,
                                 ord |-> 0])
  /\ it' = it + 1
  /\ UNCHANGED << gui, files_to_process, uivars, cancelled, queue, pc,
                  optimizer, max_workers, total, completed, total_saved,
                  fut_i, cancel_seen, flag_at_begin, delivered, opt_call,
                  settings, sharing >>

\* A result loop that also stops at the first failed result.
ResultLoopBreaksOnFailure ==
  \/ (gui = "qt" /\ cancelled)
  \/ (pc = "result" /\ ~futures[fut_i].res.success)

\* Whether the result loop leaves early at the top of an iteration: the Qt
\* loop tests the flag, the Tk loop has no test.
ResultLoopBreaks == gui = "qt" /\ cancelled

\* Top of an iteration of the result loop, taken together with the step
\* that leads to it: either wait for future i ("result") or leave the loop
\* and the with block ("shutdown").
LoopHead(i) ==
  IF i > Len(futures) \/ ResultLoopBreaks THEN "shutdown" ELSE "result"

\* The submit loop with the break left out: the flag is seen and logged,
\* and the file is submitted all the same.
SubmitCancelledNoBreak ==
  /\ pc = "submit"
  /\ it <= Len(files_to_process)
  /\ cancelled
  /\ queue' = Append(queue, Msg("text", 0, FALSE, 0, 0))
  /\ cancel_seen' = TRUE
  /\ futures' = Append(futures, [idx |-> it, kind |-> files_to_process[it],
                                 st |-> "queued", res |-> NoResult,
                                 ord |-> 0])
  /\ it' = it + 1
  /\ UNCHANGED << gui, files_to_process, uivars, cancelled, pc, optimizer,
                  max_workers, total, completed, total_saved, fut_i,
                  flag_at_begin, delivered, opt_call, settings, sharing >>

\* Submit loop, flag set: log and break.
SubmitCancelled ==
  /\ pc = "submit"
  /\ it <= Len(files_to_process)
  /\ cancelled
  /\ queue' = Append(queue, Msg("text", 0, FALSE, 0, 0))
  /\ cancel_seen' = TRUE
  /\ pc' = LoopHead(1)
  /\ UNCHANGED << gui, files_to_process, uivars, cancelled, optimizer,
                  max_workers, loopvars, futures, flag_at_begin, delivered,
                  opt_call, settings, sharing >>

\* Submit loop: the list is exhausted.
SubmitEnd ==
  /\ pc = "submit"
  /\ it > Len(files_to_process)
  /\ pc' = LoopHead(1)
  /\ UNCHANGED << gui, files_to_process, uivars, cancelled, queue, optimizer,
                  max_workers, loopvars, futures, cancel_seen, flag_at_begin,
                  delivered, opt_call, settings, sharing >>

\* What the Tk loop puts on the queue for one future: progress and the
\* result, or the exception text when future.result() raised.
ResultMsgsTk(k, r) ==
  IF r.raised THEN << Msg("text", k, FALSE, 0, 0) >>
  ELSE << Msg("progress", 0, TRUE, completed + 1, total),
          Msg("log", k, r.success, r.original_size, r.new_size) >>

\* The saving the Qt loop counts for a result: the sizes must be truthy and
\* the difference positive.
SavedQt(r) ==
  IF r.success /\ r.original_size # 0 /\ r.new_size # 0
     /\ r.original_size - r.new_size > 0
    THEN r.original_size - r.new_size ELSE 0

\* What the Qt loop emits for one future.
ResultMsgsQt(k, r) ==
  IF r.raised THEN << Msg("text", k, FALSE, 0, 0) >>
  ELSE << Msg("progress", 0, TRUE, completed + 1, total),
          Msg("log", k, r.success, r.original_size, r.new_size) >>
       \o (IF SavedQt(r) > 0
             THEN << Msg("size_saved", k, TRUE, SavedQt(r), 0) >> ELSE <<>>)

\* A result loop that walks the futures from the last submitted to the first.
CollectResultReversed ==
  /\ pc = "result"
  /\ futures[Len(futures) + 1 - fut_i].st = "done"
  /\ LET r == futures[Len(futures) + 1 - fut_i].res
         k == futures[Len(futures) + 1 - fut_i].idx
     IN  /\ queue' = queue \o (IF gui = "tk" THEN ResultMsgsTk(k, r)
                                             ELSE ResultMsgsQt(k, r))
         /\ total_saved' = IF gui = "qt" /\ ~r.raised
                             THEN total_saved + SavedQt(r) ELSE total_saved
         /\ completed' = IF gui = "qt" /\ r.raised
                           THEN completed ELSE completed + 1
  /\ fut_i' = fut_i + 1
  /\ pc' = LoopHead(fut_i + 1)
  /\ UNCHANGED << gui, files_to_process, uivars, cancelled, optimizer,
                  max_workers, total, it, futures, cancel_seen, flag_at_begin,
                  delivered, opt_call, settings, sharing >>

\* Result loop: future.result() returns for the current future.  The Tk loop
\* counts the future also when it raised, the Qt loop does not.
CollectResult ==
  /\ pc = "result"
  /\ futures[fut_i].st = "done"
  /\ LET r == futures[fut_i].res
         k == futures[fut_i].idx
     IN  /\ queue' = queue \o (IF gui = "tk" THEN ResultMsgsTk(k, r)
                                             ELSE ResultMsgsQt(k, r))
         /\ total_saved' = IF gui = "qt" /\ ~r.raised
                             THEN total_saved + SavedQt(r) ELSE total_saved
         /\ completed' = IF gui = "qt" /\ r.raised
                           THEN completed ELSE completed + 1
  /\ fut_i' = fut_i + 1
  /\ pc' = LoopHead(fut_i + 1)
  /\ UNCHANGED << gui, files_to_process, uivars, cancelled, optimizer,
                  max_workers, total, it, futures, cancel_seen, flag_at_begin,
                  delivered, opt_call, settings, sharing >>

\* The done signal handed over twice, and not at all.
DoneMsgsTwice == << Msg("done", 0, TRUE, 0, 0), Msg("done", 0, TRUE, 0, 0) >>

DoneMsgsNone == << >>

\* What follows the with block.
DoneMsgs == << Msg("done", 0, TRUE, 0, 0) >>

\* A with block left without waiting for the tasks (shutdown(wait=False)).
ExecutorExitNoWait ==
  /\ pc = "shutdown"
  /\ queue' = queue \o DoneMsgs
  /\ pc' = "exit"
  /\ UNCHANGED << gui, files_to_process, uivars, cancelled, optimizer,
                  max_workers, loopvars, futures, cancel_seen, flag_at_begin,
                  delivered, opt_call, settings, sharing >>

\* Leaving the with block waits for every submitted task (shutdown with
\* wait=True); then the done message is put / finished is emitted.
ExecutorExit ==
  /\ pc = "shutdown"
  /\ AllDone
  /\ queue' = queue \o DoneMsgs
  /\ pc' = "exit"
  /\ UNCHANGED << gui, files_to_process, uivars, cancelled, optimizer,
                  max_workers, loopvars, futures, cancel_seen, flag_at_begin,
                  delivered, opt_call, settings, sharing >>

\* run() returns: the thread is no longer running and its locals are gone.
ThreadExit ==
  /\ pc = "exit"
  /\ pc' = "none"
  /\ total' = 0
  /\ completed' = 0
  /\ it' = 1
  /\ fut_i' = 1
  /\ futures' = <<>>
  /\ UNCHANGED << gui, files_to_process, uivars, cancelled, queue, optimizer,
                  max_workers, total_saved, cancel_seen, flag_at_begin,
                  delivered, opt_call, settings, sharing >>

\* ---------------- the pool -----------------------------------------------

\* A pool created without the worker-count setting (the library default).
PoolSizeDefault == MaxFiles + 1

\* The size of the pool created by the coordinator.
PoolSize == max_workers

\* A worker of the pool takes the oldest queued task.
WorkerStart(k) ==
  /\ k \in 1..Len(futures)
  /\ futures[k].st = "queued"
  /\ \A j \in 1..(k - 1) : futures[j].st # "queued"
  /\ Running < PoolSize
  /\ futures' = [futures EXCEPT ![k].st = "running"]
  /\ UNCHANGED << gui, files_to_process, uivars, cancelled, queue, pc,
                  optimizer, max_workers, loopvars, cancel_seen,
                  flag_at_begin, delivered, opt_call, settings, sharing >>

\* How many tasks of the run have returned.
Finished == Cardinality({k \in 1..Len(futures) : futures[k].st = "done"})

\* process_file returns in a worker.  ord keeps the rank of the task in the
\* order of completion (history).
WorkerFinish(k) ==
  /\ k \in 1..Len(futures)
  /\ futures[k].st = "running"
  /\ futures' = [futures EXCEPT
                   ![k].st = "done",
                   ![k].res = process_file(optimizer, FileOf(futures[k].kind)),
                   ![k].ord = Finished + 1]
  /\ UNCHANGED << gui, files_to_process, uivars, cancelled, queue, pc,
                  optimizer, max_workers, loopvars, cancel_seen,
                  flag_at_begin, delivered, opt_call, settings, sharing >>

\* ---------------- messages handled by the front end ----------------------

UiState ==
  [ processing |-> processing, start_btn |-> start_btn, stop_btn |-> stop_btn,
    session_saved_size |-> session_saved_size, delivered |-> delivered ]

\* The terminal summary shown when done is handled, kept in the history as
\* the ok field of the done entry: TRUE for "completed", FALSE for
\* "cancelled".
Terminal(m) == [m EXCEPT !.ok = ~cancelled]

\* What a structured log entry adds to the total in _check_queue.
SavedDeltaTk(m) == IF m.ok THEN m.a - m.b ELSE 0

\* One iteration of the while loop of _check_queue.
HandleTk(u, m) ==
  CASE m.type = "progress" ->
         [u EXCEPT !.delivered = Append(@, m)]
    [] m.type = "log" ->
         [u EXCEPT !.session_saved_size = @ + SavedDeltaTk(m),
                   !.delivered = Append(@, m)]
    [] m.type = "done" ->
         [u EXCEPT !.processing = FALSE, !.start_btn = TRUE,
                   !.stop_btn = FALSE,
                   !.delivered = Append(@, Terminal(m))]
    [] OTHER -> u

\* The slots connected to the signals of the worker thread: update_progress,
\* add_log, update_saved_size, processing_finished.
HandleQt(u, m) ==
  CASE m.type = "progress" ->
         [u EXCEPT !.delivered = Append(@, m)]
    [] m.type = "log" ->
         [u EXCEPT !.delivered = Append(@, m)]
    [] m.type = "size_saved" ->
         [u EXCEPT !.session_saved_size = @ + m.a]
    [] m.type = "done" ->
         [u EXCEPT !.start_btn = TRUE, !.stop_btn = FALSE,
                   !.delivered = Append(@, Terminal(m))]
    [] OTHER -> u

RECURSIVE Drain(_, _)
Drain(u, q) == IF q = <<>> THEN u ELSE Drain(HandleTk(u, Head(q)), Tail(q))

SetUi(u) ==
  /\ processing' = u.processing
  /\ start_btn' = u.start_btn
  /\ stop_btn' = u.stop_btn
  /\ session_saved_size' = u.session_saved_size
  /\ delivered' = u.delivered

\* _check_queue (Tk): get_nowait until the queue is empty.
check_queue ==
  /\ gui = "tk"
  /\ queue # <<>>
  /\ SetUi(Drain(UiState, queue))
  /\ queue' = <<>>
  /\ UNCHANGED << gui, files_to_process, cancelled, pc, optimizer,
                  max_workers, loopvars, futures, cancel_seen, flag_at_begin,
                  opt_call, settings, sharing >>

\* Qt: the event loop of the main thread delivers one queued signal.
deliver_signal ==
  /\ gui = "qt"
  /\ queue # <<>>
  /\ SetUi(HandleQt(UiState, Head(queue)))
  /\ queue' = Tail(queue)
  /\ UNCHANGED << gui, files_to_process, cancelled, pc, optimizer,
                  max_workers, loopvars, futures, cancel_seen, flag_at_begin,
                  opt_call, settings, sharing >>

Next ==
  \/ \E kind \in FileKinds : select_files(kind)
  \/ \E text \in MaxSizeTexts, w \in 1..MaxWorkers : start_processing_tk(text, w)
  \/ \E text \in MaxSizeTexts, w \in 1..MaxWorkers : start_processing_qt(text, w)
  \/ stop_processing
  \/ RunBegin
  \/ SubmitFile
  \/ SubmitCancelled
  \/ SubmitEnd
  \/ CollectResult
  \/ ExecutorExit
  \/ ThreadExit
  \/ \E k \in 1..MaxFiles : WorkerStart(k)
  \/ \E k \in 1..MaxFiles : WorkerFinish(k)
  \/ check_queue
  \/ deliver_signal

Spec == Init /\ [][Next]_vars

\* ---------------- one call of process_file on its own --------------------

InitOpt ==
  /\ gui = "tk"
  /\ Idle
  /\ opt_call \in { [cfg |-> o, file |-> f, returned |-> FALSE,
                     result |-> NoResult] : o \in OptCfgs, f \in FileEnvs }
  /\ settings = Constructed("tk", DEFAULT_CONFIG)
  /\ sharing = NoSharing

call_process_file ==
  /\ ~opt_call.returned
  /\ opt_call' = [opt_call EXCEPT
                    !.returned = TRUE,
                    !.result = process_file(opt_call.cfg, opt_call.file)]
  /\ UNCHANGED << gui, files_to_process, uivars, cancelled, queue, pc,
                  optimizer, max_workers, loopvars, futures, cancel_seen,
                  flag_at_begin, delivered, settings, sharing >>

NextOpt == call_process_file

SpecOpt == InitOpt /\ [][NextOpt]_vars

\* ---------------- the settings panel on its own ---------------------------

\* A front end opened on the configuration file as shipped.
InitCfg ==
  /\ gui = "tk"
  /\ Idle
  /\ opt_call = NoCall
  /\ settings \in { Constructed(app, DEFAULT_CONFIG) : app \in Apps }
  /\ sharing = NoSharing

NextCfg ==
  \/ \E m \in Modes : select_mode(m)
  \/ \E q \in Qualities : edit_quality(q)
  \/ \E fmt \in Formats : select_format(fmt)
  \/ \E q \in Qualities, lang \in Languages, keep \in BOOLEAN :
       settings_dialog_save(q, lang, keep)
  \/ start_with_settings
  \/ \E app \in Apps : close_and_reopen(app)

SpecCfg == InitCfg /\ [][NextCfg]_vars

\* ---------------- workers sharing the "optimized" directory ---------------

\* pathlib's Path.mkdir with exist_ok left at False: os.mkdir's
\* FileExistsError always reaches the caller.
mkdir_raises_on_existing(is_dir) == TRUE

\* pathlib's Path.mkdir(exist_ok=True) once os.mkdir has failed with
\* FileExistsError: "if not exist_ok or not self.is_dir(): raise".
mkdir_raises(is_dir) == ~is_dir

\* sharing.dir is what <parent>/optimized is: "absent", a directory
\* ("dir") or something else of that name ("file").  sharing.at[w] is
\* where worker w stands: about to call os.mkdir ("mkdir"), in the handler
\* of FileExistsError ("is_dir"), about to write its output ("write"),
\* returned with success ("done") or with a failure ("failed").
\* created_by (0: none of the workers) and eexist (the workers whose
\* os.mkdir found the name taken) are history.
InitDir ==
  /\ gui = "tk"
  /\ Idle
  /\ opt_call = NoCall
  /\ settings = Constructed("tk", DEFAULT_CONFIG)
  /\ sharing \in { [ dir |-> d, created_by |-> 0, eexist |-> {},
                      at |-> [w \in 1..DirWorkers |-> "mkdir"] ] :
                    d \in {"absent", "dir", "file"} }

\* os.mkdir: one system call, creates the directory or fails.
os_mkdir(w) ==
  /\ sharing.at[w] = "mkdir"
  /\ IF sharing.dir = "absent"
       THEN sharing' = [sharing EXCEPT !.dir = "dir", !.created_by = w,
                                       !.at[w] = "write"]
       ELSE sharing' = [sharing EXCEPT !.eexist = @ \cup {w},
                                       !.at[w] = "is_dir"]
  /\ UNCHANGED << gui, files_to_process, uivars, cancelled, queue, pc,
                  optimizer, max_workers, loopvars, futures, cancel_seen,
                  flag_at_begin, delivered, opt_call, settings >>

\* The handler of the error: raise unless the name is a directory.
mkdir_handler(w) ==
  /\ sharing.at[w] = "is_dir"
  /\ sharing' = [sharing EXCEPT
                   !.at[w] = IF mkdir_raises(sharing.dir = "dir")
                             THEN "failed" ELSE "write"]
  /\ UNCHANGED << gui, files_to_process, uivars, cancelled, queue, pc,
                  optimizer, max_workers, loopvars, futures, cancel_seen,
                  flag_at_begin, delivered, opt_call, settings >>

\* img.save / shutil.copy2 into the directory.
write_output(w) ==
  /\ sharing.at[w] = "write"
  /\ sharing' = [sharing EXCEPT
                   !.at[w] = IF sharing.dir = "dir" THEN "done" ELSE "failed"]
  /\ UNCHANGED << gui, files_to_process, uivars, cancelled, queue, pc,
                  optimizer, max_workers, loopvars, futures, cancel_seen,
                  flag_at_begin, delivered, opt_call, settings >>

NextDir ==
  \/ \E w \in 1..DirWorkers : os_mkdir(w)
  \/ \E w \in 1..DirWorkers : mkdir_handler(w)
  \/ \E w \in 1..DirWorkers : write_output(w)

SpecDir == InitDir /\ [][NextDir]_vars

\* The steps of the coordinator thread, of the pool's workers and of the
\* main loop (the 100 ms timer of _check_queue, the Qt event loop).
CoordinatorStep ==
  \/ RunBegin \/ SubmitFile \/ SubmitCancelled \/ SubmitEnd
  \/ CollectResult \/ ExecutorExit \/ ThreadExit

WorkerStep == \E k \in 1..MaxFiles : WorkerStart(k) \/ WorkerFinish(k)

MainLoopStep == check_queue \/ deliver_signal

\* Fair scheduling: each thread that can take a step eventually takes one,
\* and every process_file invocation returns.  The user's clicks are under
\* no obligation.
FairSpec ==
  /\ Spec
  /\ WF_vars(CoordinatorStep)
  /\ WF_vars(WorkerStep)
  /\ WF_vars(MainLoopStep)

\* ------------------------------------------------------------------------
\* Properties
\* ------------------------------------------------------------------------

\* Everything the coordinator of the current run has handed to the front
\* end, in order: what was handled already, then what is still queued.
Stream == delivered \o SelectSeq(queue, LAMBDA m : m.type \in {"progress", "log", "done"})

ResultsOf(s) == SelectSeq(s, LAMBDA m : m.type = "log")
ProgressOf(s) == SelectSeq(s, LAMBDA m : m.type = "progress")
DoneCount(s) == Len(SelectSeq(s, LAMBDA m : m.type = "done"))
ResultCount(s, k) == Len(SelectSeq(s, LAMBDA m : m.type = "log" /\ m.idx = k))

\* The coordinator has handed over its done signal and has not left run()
\* yet, so its futures list is still there to compare with.
DoneEmitted == pc = "exit" /\ DoneCount(Stream) = 1

\* The front end has handled the done signal of the run.
DoneHandled == delivered # <<>> /\ delivered[Len(delivered)].type = "done"

\* C1: at the done signal every submitted file has exactly one result among
\* what was delivered, and no file ever has two.
C1_ExactlyOneResult ==
  /\ \A k \in 1..MaxFiles : ResultCount(Stream, k) <= 1
  /\ DoneEmitted => \A k \in 1..Len(futures) : ResultCount(Stream, futures[k].idx) = 1

\* C2: process_file returns a result and never raises; a missing input, an
\* undecodable image, a directory that cannot be created, a failed write, an
\* external tool that cannot be run and a failure in the SVG branch all give
\* success = false with a non-empty message.
MessageNonEmpty(m) == \E i \in 1..Len(m) : m[i] # ""

C2_NeverRaises ==
  opt_call.returned =>
    LET o == opt_call.cfg
        f == opt_call.file
        r == opt_call.result
        svg == f.ext = "svg"
        needs_dir == IF svg THEN ~o.output_dir /\ ~o.overwrite
                     ELSE o.output_dir \/ ~o.overwrite
        out_ext == IF o.target_format # "" THEN o.target_format ELSE f.ext
        runs_tool == IF svg THEN o.has_svgo \/ o.has_scour
                     ELSE optimize_external(o, out_ext) # "none"
    IN  /\ ~r.raised
        /\ ~r.success => MessageNonEmpty(r.message)
        /\ ~f.exists => ~r.success
        /\ (~svg /\ ~f.decodable) => ~r.success
        /\ (needs_dir /\ ~f.dir_exists /\ ~f.mkdir_ok) => ~r.success
        /\ (~svg /\ ~f.write_ok
              /\ (o.max_size # 0 \/ out_ext # f.ext)) => ~r.success
        /\ (~f.write_ok /\ (o.output_dir \/ ~o.overwrite)) => ~r.success
        /\ (runs_tool /\ f.tool = "launchfail") => ~r.success

C2_Witness ==
  /\ opt_call.returned
  /\ opt_call.file.exists /\ opt_call.file.decodable /\ opt_call.file.write_ok
  /\ opt_call.file.ext = "jpg" /\ opt_call.cfg.has_jpegoptim
  /\ opt_call.cfg.target_format = ""
  /\ opt_call.file.tool = "launchfail"
  /\ ~opt_call.result.success
  /\ MessageNonEmpty(opt_call.result.message)

\* C3: the number of process_file invocations that have started and not yet
\* returned never exceeds the worker-count bound of the run.
C3_AtMostWInFlight == Running <= max_workers

C3_Witness ==
  /\ max_workers >= 1
  /\ Running = max_workers
  /\ \E k \in 1..Len(futures) : futures[k].st = "queued"

\* C4: a file is submitted only while the flag is clear, nothing is submitted
\* once the submit loop has seen the flag set, and the submitted files are a
\* prefix of the selection list in its order.
SubmittedIsPrefix ==
  /\ Len(futures) <= Len(files_to_process)
  /\ \A k \in 1..Len(futures) :
       futures[k].idx = k /\ futures[k].kind = files_to_process[k]

C4_CancelStopsSubmission ==
  /\ [](SubmittedIsPrefix)
  /\ [][ /\ (Len(futures') > Len(futures) => ~cancelled)
         /\ (cancel_seen => Len(futures') <= Len(futures))
       ]_vars

C4_Witness ==
  /\ cancel_seen
  /\ pc \in {"result", "shutdown"}
  /\ Len(futures) >= 1
  /\ Len(futures) < Len(files_to_process)

\* C5: when cancellation was requested in a run, the results of all K files
\* submitted are delivered by the done signal, and no more than N.
C5_SubmittedStillDelivered ==
  (DoneEmitted /\ cancelled) =>
     /\ Len(ResultsOf(Stream)) >= Len(futures)
     /\ Len(ResultsOf(Stream)) <= Len(files_to_process)

\* C6: every progress update has 0 <= completed <= total, and the completed
\* values of a run are strictly increasing.
C6_ProgressBounds ==
  LET p == ProgressOf(Stream)
  IN  /\ \A i \in 1..Len(p) : 0 <= p[i].a /\ p[i].a <= p[i].b
      /\ \A i \in 1..(Len(p) - 1) : p[i].a < p[i + 1].a

\* C7: a run hands over done once, and nothing of the run follows it.
DoneAtMostOnceAndLast ==
  /\ DoneCount(Stream) <= 1
  /\ DoneCount(Stream) = 1 => Stream[Len(Stream)].type = "done"
  /\ pc \in {"start", "submit", "result", "shutdown"} => DoneCount(Stream) = 0

C7_DoneOnceAndLast ==
  /\ [](DoneAtMostOnceAndLast)
  /\ [][(pc = "shutdown" /\ pc' = "exit") => DoneCount(Stream') = 1]_vars

C7_Witness ==
  /\ DoneHandled
  /\ Len(ResultsOf(delivered)) >= 2
  /\ queue = <<>>

\* C8: every started run leads to its done signal being handled with the
\* front end back in the idle state (start enabled, stop disabled).
C8_RunTerminates ==
  (~start_btn) ~> (DoneHandled /\ start_btn /\ ~stop_btn)

C8_Witness ==
  /\ DoneHandled /\ start_btn /\ ~stop_btn
  /\ cancelled
  /\ Len(ResultsOf(delivered)) >= 1

\* C9: once the results of a run are in, the bytes-saved total is the sum of
\* the positive savings of its successful results.
RECURSIVE SumSaved(_)
SumSaved(s) ==
  IF s = <<>> THEN 0
  ELSE (IF Head(s).type = "log" /\ Head(s).ok /\ Head(s).a > Head(s).b
          THEN Head(s).a - Head(s).b ELSE 0) + SumSaved(Tail(s))

C9_SavedIsSumOfPositive ==
  /\ DoneHandled => session_saved_size = SumSaved(delivered)
  /\ session_saved_size >= 0

\* C10: a run without cancellation over files of which exactly one cannot be
\* decoded gives one failed result and a successful result for each of the
\* others, wherever the failing file stands and whatever the worker count.
BadCount == Cardinality({k \in 1..Len(futures) : futures[k].kind = "bad"})

C10_OneFailureNSuccesses ==
  (DoneEmitted /\ ~cancelled /\ BadCount = 1) =>
     /\ Len(futures) >= total
     /\ Len(SelectSeq(ResultsOf(Stream), LAMBDA m : ~m.ok)) = 1
     /\ Len(SelectSeq(ResultsOf(Stream), LAMBDA m : m.ok)) = Len(futures) - 1

C10_Witness ==
  /\ DoneEmitted /\ ~cancelled /\ BadCount = 1
  /\ Len(futures) >= 2
  /\ futures[1].kind = "bad"
  /\ max_workers = 2

\* C11: a cancellation that comes after the submit loop has submitted every
\* file leaves the delivered results as they would be without it (one per
\* submitted file at the done signal); the summary then reads cancelled.
C11_LateCancelKeepsResults ==
  /\ (DoneEmitted /\ cancelled /\ ~cancel_seen) =>
        \A k \in 1..Len(futures) : ResultCount(Stream, futures[k].idx) = 1
  /\ DoneHandled => (delivered[Len(delivered)].ok <=> ~cancelled)

\* C12: a run whose flag is already set when the coordinator begins submits
\* no file, delivers no result and no progress update, and its summary
\* reads cancelled.
C12_FlagSetAtStart ==
  flag_at_begin =>
    /\ futures = <<>>
    /\ ResultsOf(Stream) = <<>>
    /\ ProgressOf(Stream) = <<>>
    /\ DoneHandled => ~delivered[Len(delivered)].ok

C12_Witness ==
  /\ flag_at_begin
  /\ cancel_seen
  /\ Len(files_to_process) >= 2
  /\ DoneHandled
  /\ ~delivered[Len(delivered)].ok
  /\ pc = "none"

\* C13: a start with a max-size text that is not a number starts no thread,
\* submits nothing, hands nothing to the front end and leaves the buttons
\* as in the idle state (start enabled, stop disabled, not processing).
StartWithInvalidMaxSize ==
  \E w \in 1..MaxWorkers :
    start_processing_tk("abc", w) \/ start_processing_qt("abc", w)

C13_InvalidMaxSizeRejected ==
  [][ StartWithInvalidMaxSize =>
        /\ pc' = pc
        /\ futures' = futures
        /\ queue' = queue
        /\ files_to_process' = files_to_process
        /\ start_btn' /\ ~stop_btn' /\ ~processing'
    ]_vars

C13_Witness ==
  /\ gui = "tk"
  /\ cancel_seen /\ ~cancelled
  /\ delivered = <<>>
  /\ pc = "none"
  /\ files_to_process # <<>>
  /\ start_btn /\ ~stop_btn /\ ~processing

\* C14: a successful result means a file is at the resolved output path and
\* new_size is its size once the external tool is through, in the raster
\* and in the SVG branch.
C14_NewSizeIsFileSize ==
  (opt_call.returned /\ opt_call.result.success) =>
     /\ opt_call.result.out_exists
     /\ opt_call.result.new_size = opt_call.result.out_size

C14_Witness ==
  /\ opt_call.returned
  /\ opt_call.result.success
  /\ opt_call.result.wrote = "copy"
  /\ opt_call.file.ext = "png" /\ opt_call.cfg.has_pngquant
  /\ opt_call.file.tool = "ok"
  /\ opt_call.result.new_size = opt_call.file.tool_size
  /\ opt_call.result.new_size # opt_call.file.size

\* C15: with overwrite, no output directory, no bound and no target format
\* the output path is the input path and the call neither re-encodes nor
\* copies; the file changes only if an external tool rewrites it.
C15_InPlaceNoWrite ==
  LET o == opt_call.cfg
      f == opt_call.file
      r == opt_call.result
      tool_ran == IF f.ext = "svg" THEN o.has_svgo \/ o.has_scour
                  ELSE optimize_external(o, f.ext) # "none"
  IN  ( /\ opt_call.returned
        /\ o.overwrite /\ ~o.output_dir /\ o.max_size = 0
        /\ o.target_format = ""
        /\ f.exists /\ (f.ext = "svg" \/ f.decodable) ) =>
        /\ r.out_path = file_path(f)
        /\ r.wrote = "none"
        /\ (r.success /\ ~tool_ran) => r.out_size = f.size

C15_Witness ==
  /\ opt_call.returned
  /\ opt_call.cfg.overwrite /\ ~opt_call.cfg.output_dir
  /\ opt_call.cfg.max_size = 0 /\ opt_call.cfg.target_format = ""
  /\ opt_call.file.exists /\ opt_call.file.decodable
  /\ opt_call.file.ext = "jpg" /\ opt_call.cfg.has_jpegoptim
  /\ opt_call.file.tool = "ok"
  /\ ~opt_call.file.write_ok
  /\ opt_call.result.success
  /\ opt_call.result.wrote = "none"
  /\ opt_call.result.new_size = opt_call.file.tool_size

\* C19: a raster file is re-encoded exactly when it was resized, or a target
\* format other than its own is set, or the output path differs from the
\* input path and is not there yet; otherwise it is copied when the paths
\* differ and not written when they are the same.
C19_ReencodeDecision ==
  LET o == opt_call.cfg
      f == opt_call.file
      r == opt_call.result
      differs == r.out_path # file_path(f)
      reencode == \/ r.resized
                  \/ (o.target_format # "" /\ o.target_format # f.ext)
                  \/ (differs /\ ~f.out_exists)
  IN  (opt_call.returned /\ r.success /\ f.ext # "svg") =>
        r.wrote = IF reencode THEN "encode"
                  ELSE IF differs THEN "copy" ELSE "none"

\* C20: the output path is the output directory if one is set, else the
\* input path with overwrite, else the optimized folder; a directory that
\* is absent is created, in the raster branch and in the SVG branch.
C20_OutputPathResolution ==
  LET o == opt_call.cfg
      f == opt_call.file
      r == opt_call.result
  IN  ( /\ opt_call.returned
        /\ f.exists /\ (f.ext = "svg" \/ f.decodable) ) =>
        /\ r.out_path.dir = IF o.output_dir THEN "output_dir"
                            ELSE IF o.overwrite THEN "input"
                            ELSE "optimized"
        /\ (r.out_path.dir # "input" /\ ~f.dir_exists /\ f.mkdir_ok) =>
              r.mkdir

\* C17: results reach the front end in the order of the selection list,
\* also when a file further down the list has returned first.
C17_SubmissionOrder ==
  LET r == ResultsOf(Stream)
  IN  \A i \in 1..(Len(r) - 1) : r[i].idx < r[i + 1].idx

C17_Witness ==
  /\ DoneEmitted
  /\ Len(futures) >= 2
  /\ futures[2].ord < futures[1].ord
  /\ Len(ResultsOf(Stream)) = Len(futures)
  /\ ResultsOf(Stream)[1].idx = 1
  /\ ResultsOf(Stream)[2].idx = 2

\* C18: results reach the front end in the order in which process_file
\* returned: a file that returned before another has its result before it.
C18_CompletionOrder ==
  LET r == ResultsOf(Stream)
  IN  pc \in {"result", "shutdown", "exit"} =>
        \A i \in 1..(Len(r) - 1) :
          futures[r[i].idx].ord < futures[r[i + 1].idx].ord

\* C18 as amended: results reach the front end in the order of submission
\* without gaps: the i-th result is that of the i-th file, and it is handed
\* over only after that file's process_file has returned, whichever file
\* returned first.
C18_SubmissionOrderNoGaps ==
  LET r == ResultsOf(Stream)
  IN  /\ \A i \in 1..Len(r) : r[i].idx = i
      /\ pc \in {"result", "shutdown", "exit"} =>
           \A i \in 1..Len(r) : futures[i].st = "done"

C18_Witness ==
  /\ pc = "result"
  /\ fut_i = 2
  /\ Len(futures) >= 2
  /\ futures[2].ord = 1
  /\ futures[1].ord = 2
  /\ Len(ResultsOf(Stream)) = 1
  /\ ResultsOf(Stream)[1].idx = 1

\* C16: in every front end, whatever modes were picked, settings saved and
\* configurations loaded, Lossless mode goes with quality 100, on the panel
\* and in what a start hands to the optimizer.
C16_LosslessPinsQuality ==
  /\ settings.mode = "Lossless" => settings.quality = 100
  /\ (settings.started /\ settings.passed_mode = "Lossless") =>
        settings.passed_quality = 100


\* ---------------- what a call leaves on disk; resizing ---------------------

\* A file was at the resolved output path before the call.
PreExistingOutput(c) ==
  /\ c.result.out_path # NoPath
  /\ IF c.result.out_path = file_path(c.file) THEN c.file.exists
     ELSE c.file.out_exists

\* C21: when a call fails and a file was at the resolved output path before
\* the call, that file still holds what it held before the call.
C21_FailureKeepsExistingOutput ==
  (opt_call.returned /\ ~opt_call.result.success
     /\ PreExistingOutput(opt_call)) =>
    opt_call.result.out_state = "pre"

\* Everything a call needs apart from the external tool is in order.
PipelineSound(c) ==
  /\ c.file.exists
  /\ c.file.ext = "svg" \/ c.file.decodable
  /\ c.file.dir_exists
  /\ c.file.write_ok

\* C22: the external tool cannot make a call fail: whether it is absent,
\* exits with 0, exits with an error or cannot be started, a call whose
\* other steps succeed reports success.
C22_ToolIsBestEffort ==
  (opt_call.returned /\ PipelineSound(opt_call)) => opt_call.result.success

\* n / d rounded to the nearest integer (d > 0, no tie occurs for the sizes
\* of the model).
Rounded(n, d) == (2 * n + d) \div (2 * d)

\* C23: a resized image has the size
\* (round(w * bound / max(w, h)), round(h * bound / max(w, h))).
C23_ResizeRounds ==
  LET o == opt_call.cfg
      f == opt_call.file
      m == Max2(f.dims[1], f.dims[2])
  IN  (opt_call.returned /\ opt_call.result.resized) =>
        opt_call.result.img_size =
          << Rounded(f.dims[1] * o.max_size, m),
             Rounded(f.dims[2] * o.max_size, m) >>

\* C24: an image is resized only when its larger side is strictly above the
\* bound; the ratio is then below 1, the downsampling filter is used and
\* no side grows. An image within the bound keeps its size.
C24_ResizeOnlyShrinks ==
  LET o == opt_call.cfg
      f == opt_call.file
      r == opt_call.result
      m == Max2(f.dims[1], f.dims[2])
  IN  (opt_call.returned /\ r.success /\ f.ext # "svg") =>
        IF r.resized
          THEN /\ o.max_size # 0 /\ o.max_size < m
               /\ r.resample = "LANCZOS"
               /\ r.img_size[1] <= f.dims[1] /\ r.img_size[2] <= f.dims[2]
               /\ Max2(r.img_size[1], r.img_size[2]) <= o.max_size
          ELSE /\ r.img_size = f.dims
               /\ r.resample = "none"
               /\ o.max_size = 0 \/ m <= o.max_size

C24_Witness ==
  /\ opt_call.returned
  /\ opt_call.result.success
  /\ opt_call.result.resized
  /\ opt_call.cfg.max_size = 3
  /\ opt_call.result.img_size = <<3, 1>>
  /\ opt_call.result.resample = "LANCZOS"

\* ---------------- the shared output directory ----------------------------

\* C25: with overwrite off and no output directory, however the workers'
\* steps interleave, none fails on the creation of the shared "optimized"
\* directory: a worker fails only if that name is taken by something that
\* is not a directory.
C25_SharedDirObtained ==
  \A w \in 1..DirWorkers :
    sharing.at[w] = "failed" => sharing.dir = "file"

\* A worker found the directory just created by another one and went on to
\* write its output.
C25_Witness ==
  \E w \in 1..DirWorkers :
    /\ sharing.at[w] = "done"
    /\ w \in sharing.eexist
    /\ sharing.created_by \notin {0, w}

\* ---------------- one run at a time ---------------------------------------

\* A run is active: from the start that launched the coordinator until the
\* front end has handled its done message.
RunActive ==
  \/ pc \in {"start", "submit", "result", "shutdown"}
  \/ DoneCount(queue) > 0

\* C26: while a run is active no step starts a second coordinator, clears
\* the cancellation flag or resets what the front end has accumulated for
\* the run (the messages handled; the saved total moves only when a
\* message is handled).
C26_OneRunAtATime ==
  [][ RunActive =>
        /\ (pc' = "start" => pc = "start")
        /\ (cancelled => cancelled')
        /\ Len(delivered') >= Len(delivered)
        /\ (session_saved_size' # session_saved_size =>
              Len(queue') < Len(queue)) ]_vars

\* The Qt worker thread has left run() and its finished signal is still
\* queued: only the disabled button holds a new start back.
C26_Witness ==
  /\ gui = "qt"
  /\ pc = "none"
  /\ DoneCount(queue) > 0
  /\ files_to_process # <<>>
  /\ ~start_btn

\* ---------------- the file set of a run ------------------------------------

\* C27: the files of a run are those selected when it started: once the
\* coordinator has fixed `total`, no more than `total` files are submitted.
C27_FileSetFixedAtStart ==
  pc \in {"submit", "result", "shutdown", "exit"} => Len(futures) <= total

\* ---------------- done and the submitted tasks ----------------------------

\* C28: the done message is emitted only when every submitted invocation
\* of process_file has returned, also when a cancellation has made the
\* result loop stop before it collected them all.
C28_DoneAfterAllReturned ==
  [][ DoneCount(queue') > DoneCount(queue) =>
        /\ futures' = futures
        /\ \A k \in 1..Len(futures) : futures[k].st = "done" ]_vars

\* Done was emitted after a cancellation cut the result loop short: fewer
\* results than submitted tasks, and every task has returned.
C28_Witness ==
  /\ gui = "qt"
  /\ pc = "exit"
  /\ cancelled
  /\ DoneCount(Stream) = 1
  /\ futures # <<>>
  /\ Len(ResultsOf(Stream)) < Len(futures)
  /\ AllDone

\* ---------------- stored quality and format -------------------------------

TkApps == {"tk", "tk_simple"}

\* C29: in the Tk front ends, when the stored mode is Lossy, the quality
\* stored in the configuration (by save_config on close or by the settings
\* dialog) is the quality the panel holds once load_config has run.
C29_LossyQualityRoundTrip ==
  (settings.app \in TkApps /\ settings.loaded
     /\ settings.config.mode = "Lossy") =>
    settings.quality = settings.config.quality

\* The keep-original entry, in either language.
KeepOriginalTexts == {"Keep Original", KEEP_ORIGINAL_ZH}

\* C30: in every front end and language, a start with the format selector
\* on its keep-original entry constructs the optimizer with
\* target_format = None.
C30_KeepOriginalIsNone ==
  (settings.started /\ settings.passed_format \in KeepOriginalTexts) =>
    settings.passed_target_format = "None"

====
